---- MODULE Spec2Model ----
(***************************************************************************)
(* A model of job-search: the SQLite-backed job store (src/src/db.rs) and  *)
(* the command-line and HTTP front ends that drive it (src/src/main.rs).   *)
(*                                                                         *)
(* Text (a Rust String, an SQLite TEXT value) is a sequence of             *)
(* one-character strings, so that parsing, formatting, pattern matching    *)
(* and byte-wise comparison are computed on the characters as the code     *)
(* computes them.  An Option<T> is a sequence of at most one element.      *)
(***************************************************************************)
EXTENDS Integers, Sequences, FiniteSets, TLC

VARIABLES
    jobs,       \* the rows of table jobs, in rowid order
    assigned,   \* history: the ids INSERT has assigned since the table was created
    recreated,  \* history: the table has been dropped and created again
    out,        \* what the last command-line invocation did and printed
    pc,         \* where the serve command is: not started, in accept, in a step
                \* of handle_request, or dead of a panic
    pending,    \* the number of connections made that serve_jobs has not taken yet
    stream,     \* the TcpStream accepted last: what the client sends on it, how
                \* much of it has been read, what has been written, open or closed
    lines,          \* handle_request: the header lines read so far
    content_length, \* handle_request: the Content-Length read so far
    body            \* handle_request: the body read

vars ==
    <<jobs, assigned, recreated, out, pc, pending, stream, lines, content_length, body>>

\* The variables of the serve command.
server == <<pc, pending, stream, lines, content_length, body>>

(***************************************************************************)
(* Bounds of the model.                                                    *)
(***************************************************************************)
\* No INSERT is modelled that would assign an id above this, so the table holds
\* at most this many rows.
MaxId == 2

\* At most this many connections wait to be taken by serve_jobs.
MaxPending == 1

(***************************************************************************)
(* Option<T>                                                               *)
(***************************************************************************)
None == <<>>
Some(x) == <<x>>
is_none(o) == Len(o) = 0
is_some(o) == Len(o) = 1
unwrap(o) == o[1]

\* let x = v in F(x): v is evaluated once and F applied to its value.
Let(v, F(_)) == CHOOSE r \in {F(x) : x \in {v}} : TRUE

(***************************************************************************)
(* Characters.                                                             *)
(***************************************************************************)
\* The printable ASCII characters in code order, in two runs: 32 (space) to 95
\* (_), and 97 (a) to 126 (~).  Code 96, the backquote, cannot be written in a
\* string of this language and occurs in no text of the model.
AsciiLow ==
    << " ", "!", "\"", "#", "$", "%", "&", "'", "(", ")", "*", "+", ",", "-", ".", "/",
       "0", "1", "2", "3", "4", "5", "6", "7", "8", "9", ":", ";", "<", "=", ">", "?",
       "@", "A", "B", "C", "D", "E", "F", "G", "H", "I", "J", "K", "L", "M", "N", "O",
       "P", "Q", "R", "S", "T", "U", "V", "W", "X", "Y", "Z", "[", "\\", "]", "^", "_" >>

AsciiHigh ==
    << "a", "b", "c", "d", "e", "f", "g", "h", "i", "j", "k", "l", "m", "n", "o",
       "p", "q", "r", "s", "t", "u", "v", "w", "x", "y", "z", "{", "|", "}", "~" >>

AsciiChars ==
    {AsciiLow[i] : i \in 1..Len(AsciiLow)} \cup {AsciiHigh[i] : i \in 1..Len(AsciiHigh)}

\* The byte of each ASCII character.
ByteTable ==
    [c \in AsciiChars |->
        IF \E i \in 1..Len(AsciiLow) : AsciiLow[i] = c
        THEN 31 + (CHOOSE i \in 1..Len(AsciiLow) : AsciiLow[i] = c)
        ELSE 96 + (CHOOSE i \in 1..Len(AsciiHigh) : AsciiHigh[i] = c)]

Byte(c) == ByteTable[c]

\* The character of a byte.
Char(b) == IF b < 96 THEN AsciiLow[b - 31] ELSE AsciiHigh[b - 96]

AsciiDigits == {"0", "1", "2", "3", "4", "5", "6", "7", "8", "9"}

is_ascii_digit(c) == c \in AsciiDigits

DigitValue(c) == Byte(c) - Byte("0")

DigitChar(n) == Char(Byte("0") + n)

\* ASCII case folding: A..Z to a..z, every other character to itself.
to_ascii_lowercase(c) ==
    IF Byte(c) >= Byte("A") /\ Byte(c) <= Byte("Z")
    THEN Char(Byte(c) + 32)
    ELSE c

\* str::contains: v occurs in s as a contiguous run of characters.
contains(s, v) ==
    \E i \in 1..(Len(s) + 1) :
        /\ i + Len(v) - 1 <= Len(s)
        /\ SubSeq(s, i, i + Len(v) - 1) = v

\* str::starts_with
starts_with(s, p) == Len(p) <= Len(s) /\ SubSeq(s, 1, Len(p)) = p

\* memcmp order of two texts (SQLite's BINARY collation): negative, zero or
\* positive as a sorts before, equal to or after b.
RECURSIVE BinaryCompare(_, _)
BinaryCompare(a, b) ==
    IF a = <<>> /\ b = <<>> THEN 0
    ELSE IF a = <<>> THEN -1
    ELSE IF b = <<>> THEN 1
    ELSE IF Byte(Head(a)) /= Byte(Head(b)) THEN Byte(Head(a)) - Byte(Head(b))
    ELSE BinaryCompare(Tail(a), Tail(b))

(***************************************************************************)
(* chrono: NaiveDate::parse_from_str(text, "%d-%m-%Y") and                 *)
(* NaiveDate::format("%d-%m-%Y"), as db.rs and main.rs call them.  A       *)
(* NaiveDate is a record [year, month, day].                               *)
(***************************************************************************)
\* The number of leading ASCII digits of s, counted up to width.
RECURSIVE DigitRun(_, _)
DigitRun(s, width) ==
    IF width = 0 \/ s = <<>> \/ ~is_ascii_digit(Head(s)) THEN 0
    ELSE 1 + DigitRun(Tail(s), width - 1)

\* The decimal value of the first n characters of s, all digits.
RECURSIVE DecimalValue(_, _)
DecimalValue(s, n) ==
    IF n = 0 THEN 0
    ELSE 10 * DecimalValue(s, n - 1) + DigitValue(s[n])

\* A numeric field of the format: one to width digits, as many as there are.
ScanNumber(s, width) ==
    LET n == DigitRun(s, width)
    IN  IF n = 0 THEN [ok |-> FALSE]
        ELSE [ok |-> TRUE, value |-> DecimalValue(s, n),
              rest |-> SubSeq(s, n + 1, Len(s))]

\* %Y: an explicit sign lifts the limit of four digits.
ScanYear(s) ==
    IF s /= <<>> /\ Head(s) \in {"+", "-"}
    THEN LET r == ScanNumber(Tail(s), Len(s))
         IN  IF ~r.ok THEN r
             ELSE [r EXCEPT !.value = IF Head(s) = "-" THEN 0 - r.value ELSE r.value]
    ELSE ScanNumber(s, 4)

\* The literal "-" between two fields.
ScanDash(s) ==
    IF s /= <<>> /\ Head(s) = "-" THEN [ok |-> TRUE, rest |-> Tail(s)]
    ELSE [ok |-> FALSE]

is_leap_year(y) == (y % 4 = 0 /\ y % 100 /= 0) \/ y % 400 = 0

DaysInMonth(m, y) ==
    IF m = 2 THEN (IF is_leap_year(y) THEN 29 ELSE 28)
    ELSE IF m \in {4, 6, 9, 11} THEN 30
    ELSE 31

\* Err of parse_from_str.
ParseError == [ok |-> FALSE]

\* The date of a day, a month and a year that were read, if there is such a date.
from_ymd(y, m, d) ==
    IF m < 1 \/ m > 12 THEN ParseError
    ELSE IF d < 1 \/ d > DaysInMonth(m, y) THEN ParseError
    ELSE [ok |-> TRUE, date |-> [year |-> y, month |-> m, day |-> d]]

\* NaiveDate::parse_from_str(s, "%d-%m-%Y"): Ok(date) as [ok |-> TRUE, date |-> d],
\* Err as [ok |-> FALSE].  Input left over after the year, a field that is not a
\* number and a day the month does not have are errors.
parse_from_str(s) ==
    Let(ScanNumber(s, 2), LAMBDA d :
      IF ~d.ok THEN ParseError ELSE
      Let(ScanDash(d.rest), LAMBDA dash1 :
        IF ~dash1.ok THEN ParseError ELSE
        Let(ScanNumber(dash1.rest, 2), LAMBDA m :
          IF ~m.ok THEN ParseError ELSE
          Let(ScanDash(m.rest), LAMBDA dash2 :
            IF ~dash2.ok THEN ParseError ELSE
            Let(ScanYear(dash2.rest), LAMBDA y :
              IF ~y.ok \/ y.rest /= <<>> THEN ParseError
              ELSE from_ymd(y.value, m.value, d.value))))))

\* The decimal digits of n >= 0, zero-padded to at least width characters.
RECURSIVE ZeroPadded(_, _)
ZeroPadded(n, width) ==
    IF n < 10 /\ width <= 1 THEN <<DigitChar(n)>>
    ELSE Append(ZeroPadded(n \div 10, width - 1), DigitChar(n % 10))

\* %Y: four digits for the years 0..9999, a sign and the digits otherwise.
FormatYear(y) ==
    IF y >= 0 /\ y <= 9999 THEN ZeroPadded(y, 4)
    ELSE IF y < 0 THEN <<"-">> \o ZeroPadded(0 - y, 4)
    ELSE <<"+">> \o ZeroPadded(y, 4)

\* date.format("%d<sep>%m<sep>%Y").to_string()
format_with(date, sep) ==
    ZeroPadded(date.day, 2) \o <<sep>> \o ZeroPadded(date.month, 2) \o <<sep>>
        \o FormatYear(date.year)

\* date.format("%d-%m-%Y").to_string()
format(date) == format_with(date, "-")

(***************************************************************************)
(* SQLite, as far as the statements of db.rs use it.  Table jobs is a set  *)
(* of rows [id, title, description, date]; id is the INTEGER PRIMARY KEY,  *)
(* so it is the rowid and no two rows share it.                            *)
(***************************************************************************)
Ids(t) == {r.id : r \in t}

\* The rowid an INSERT that names no id gets: one more than the largest rowid in
\* the table, 1 in an empty table (the column is not AUTOINCREMENT).
NewRowid(t) ==
    IF t = {} THEN 1
    ELSE (CHOOSE i \in Ids(t) : \A j \in Ids(t) : j <= i) + 1

\* A full scan of the table: the rows in rowid order.
TableScan(t) ==
    [k \in 1..Cardinality(t) |->
        CHOOSE r \in t : Cardinality({q \in t : q.id < r.id}) = k - 1]

\* A string literal of the statement text, given the characters between its
\* opening quote and the closing quote the statement writes after them: '' stands
\* for one quote; a quote by itself closes the literal early and leaves the rest
\* to be read as SQL.  With an odd number of quotes among the characters, the
\* statement then ends inside a literal that nothing closes, and the tokenizer
\* rejects it.  (An even number of quotes with one standing by itself injects SQL
\* of its own; no text of the model does, and it is answered like the odd case.)
\* LiteralCloses: the literal ends at the closing quote the statement writes
\* (read from character i on).
RECURSIVE LiteralClosesFrom(_, _)
LiteralClosesFrom(raw, i) ==
    IF i > Len(raw) THEN TRUE
    ELSE IF raw[i] = "'"
    THEN i + 1 <= Len(raw) /\ raw[i + 1] = "'" /\ LiteralClosesFrom(raw, i + 2)
    ELSE LiteralClosesFrom(raw, i + 1)

LiteralCloses(raw) == LiteralClosesFrom(raw, 1)

\* The text of a literal that closes (read from character i on).
RECURSIVE LiteralValueFrom(_, _)
LiteralValueFrom(raw, i) ==
    IF i > Len(raw) THEN <<>>
    ELSE IF raw[i] = "'" THEN <<"'">> \o LiteralValueFrom(raw, i + 2)
    ELSE <<raw[i]>> \o LiteralValueFrom(raw, i + 1)

LiteralValue(raw) == LiteralValueFrom(raw, 1)

\* x LIKE pattern: % matches any run of characters, _ any one character, every
\* other character itself, upper and lower case ASCII letters alike.  LikeFrom
\* matches the pattern from character i on against x from character j on.
RECURSIVE LikeFrom(_, _, _, _)
LikeFrom(pattern, x, i, j) ==
    IF i > Len(pattern) THEN j > Len(x)
    ELSE IF pattern[i] = "%"
    THEN LikeFrom(pattern, x, i + 1, j) \/ (j <= Len(x) /\ LikeFrom(pattern, x, i, j + 1))
    ELSE IF j > Len(x) THEN FALSE
    ELSE IF pattern[i] = "_" THEN LikeFrom(pattern, x, i + 1, j + 1)
    ELSE /\ to_ascii_lowercase(pattern[i]) = to_ascii_lowercase(x[j])
         /\ LikeFrom(pattern, x, i + 1, j + 1)

Like(pattern, x) == LikeFrom(pattern, x, 1, 1)

\* One condition of a WHERE clause, [column, operator, quoted], holds of a row;
\* quoted is the text the statement has between the quotes.
ConditionHolds(cond, row) ==
    LET literal == LiteralValue(cond.quoted)
        x == IF cond.column = "title" THEN row.title
             ELSE IF cond.column = "description" THEN row.description
             ELSE row.date
    IN  IF cond.operator = "LIKE" THEN Like(literal, x) ELSE x = literal

\* ORDER BY date ASC: the rows by their date text in memcmp order, rows of equal
\* date in the order the scan delivers them.  SortsBefore: row i of rows comes
\* before row j in the result.
SortsBefore(rows, i, j) ==
    \/ BinaryCompare(rows[i].date, rows[j].date) < 0
    \/ BinaryCompare(rows[i].date, rows[j].date) = 0 /\ i < j

OrderByDate(rows) ==
    [k \in 1..Len(rows) |->
        rows[CHOOSE j \in 1..Len(rows) :
                Cardinality({i \in 1..Len(rows) : SortsBefore(rows, i, j)}) = k - 1]]

\* WHERE c1 AND c2 ...: the rows, in their order, of which every condition holds
\* (from row i on).
RECURSIVE WhereFrom(_, _, _)
WhereFrom(rows, conditions, i) ==
    IF i > Len(rows) THEN <<>>
    ELSE IF \A c \in 1..Len(conditions) : ConditionHolds(conditions[c], rows[i])
    THEN <<rows[i]>> \o WhereFrom(rows, conditions, i + 1)
    ELSE WhereFrom(rows, conditions, i + 1)

Where(rows, conditions) == WhereFrom(rows, conditions, 1)

\* SELECT id, title, description, date FROM jobs [WHERE c1 AND c2 ...] ORDER BY
\* date ASC.  Err (the statement cannot be prepared) is [ok |-> FALSE].
SelectWhereOrderByDate(t, conditions) ==
    IF \E i \in 1..Len(conditions) : ~LiteralCloses(conditions[i].quoted)
    THEN [ok |-> FALSE]
    ELSE Let(Where(TableScan(t), conditions),
             LAMBDA rows : [ok |-> TRUE, rows |-> OrderByDate(rows)])

(***************************************************************************)
(* db.rs: DB and Queries.                                                  *)
(***************************************************************************)
\* DB::migrate_db: CREATE TABLE jobs, empty, with no id assigned yet.
migrate_db ==
    /\ jobs' = {}
    /\ assigned' = {}

\* drop_db creating the table only if it does not exist, without dropping it.
drop_db_kept ==
    /\ UNCHANGED <<jobs, assigned>>
    /\ recreated' = TRUE

\* DB::drop_db: DROP TABLE jobs, then migrate_db.
drop_db ==
    /\ migrate_db
    /\ recreated' = TRUE

\* add_job with the title and the description bound to each other's column.
add_job_swapped(title, description, date) ==
    /\ jobs' = jobs \cup {[id |-> NewRowid(jobs), title |-> description,
                           description |-> title, date |-> date]}
    /\ assigned' = assigned \cup {NewRowid(jobs)}
    /\ UNCHANGED recreated

\* Queries::add_job: INSERT INTO jobs (title, description, date) VALUES (?, ?, ?),
\* the three values bound as parameters.
add_job(title, description, date) ==
    /\ jobs' = jobs \cup {[id |-> NewRowid(jobs), title |-> title,
                           description |-> description, date |-> date]}
    /\ assigned' = assigned \cup {NewRowid(jobs)}
    /\ UNCHANGED recreated

\* Queries::list_jobs: SELECT id, title, description, date FROM jobs.
list_jobs(t) == TableScan(t)

\* remove_job with DELETE FROM jobs WHERE id <= ?
remove_job_upto(id) ==
    /\ jobs' = {r \in jobs : r.id > id}
    /\ UNCHANGED <<assigned, recreated>>

\* Queries::remove_job: DELETE FROM jobs WHERE id = ?
remove_job(id) ==
    /\ jobs' = {r \in jobs : r.id /= id}
    /\ UNCHANGED <<assigned, recreated>>

\* The condition seach_jobs pushes for the title filter, if any:
\* format!("title LIKE '%{}%'", title).
TitleCondition(title) ==
    IF is_some(title) /\ unwrap(title) /= <<>>
    THEN <<[column |-> "title", operator |-> "LIKE",
            quoted |-> <<"%">> \o unwrap(title) \o <<"%">>]>>
    ELSE <<>>

\* The condition for the description filter, if any:
\* format!("description LIKE '%{}%'", description).
DescriptionCondition(description) ==
    IF is_some(description) /\ unwrap(description) /= <<>>
    THEN <<[column |-> "description", operator |-> "LIKE",
            quoted |-> <<"%">> \o unwrap(description) \o <<"%">>]>>
    ELSE <<>>

\* DateCondition comparing with whatever text is given, empty or not a date.
DateCondition_unchecked(date) ==
    IF is_some(date)
    THEN <<[column |-> "date", operator |-> "=", quoted |-> unwrap(date)]>>
    ELSE <<>>

\* DateCondition pushing the condition also when the filter is not a date.
DateCondition_kept(date) ==
    IF is_some(date) /\ unwrap(date) /= <<>>
    THEN Let(parse_from_str(unwrap(date)), LAMBDA parsed :
           <<[column |-> "date", operator |-> "=",
              quoted |-> IF parsed.ok THEN format(parsed.date) ELSE <<>>]>>)
    ELSE <<>>

\* The condition for the date filter, if any: format!("date='{}'", formatted_date),
\* pushed only when the filter parses as a date; otherwise a message is printed
\* and nothing is pushed.
DateCondition(date) ==
    IF is_some(date) /\ unwrap(date) /= <<>>
    THEN Let(parse_from_str(unwrap(date)), LAMBDA parsed :
           Let(IF parsed.ok THEN format(parsed.date) ELSE <<>>, LAMBDA formatted_date :
             IF formatted_date /= <<>>
             THEN <<[column |-> "date", operator |-> "=", quoted |-> formatted_date]>>
             ELSE <<>>))
    ELSE <<>>

\* Queries::seach_jobs on table t: the Vec<Job> returned, as [panic |-> FALSE,
\* jobs |-> the rows], or [panic |-> TRUE] when prepare fails and the unwrap of
\* its error panics.
seach_jobs(t, title, description, date) ==
    Let(TitleCondition(title) \o DescriptionCondition(description)
            \o DateCondition(date), LAMBDA args :
      Let(SelectWhereOrderByDate(t, args), LAMBDA rows :
        IF rows.ok THEN [panic |-> FALSE, jobs |-> rows.rows]
        ELSE [panic |-> TRUE]))

(***************************************************************************)
(* main.rs: format_date and the commands of the command line.  Every       *)
(* command is one run of the program: it opens the database, acts, prints  *)
(* and exits.                                                              *)
(***************************************************************************)
today_text == <<"t", "o", "d", "a", "y">>

\* format_date handing on, as it is given, a date that does not parse.
format_date_lenient(date, now) ==
    IF date = today_text THEN [panic |-> FALSE, value |-> format(now)]
    ELSE Let(parse_from_str(date), LAMBDA parsed :
           [panic |-> FALSE, value |-> IF parsed.ok THEN format(parsed.date) ELSE date])

\* format_date(date), now being the local date Local::now() gives:
\* [panic |-> FALSE, value |-> text] or [panic |-> TRUE].
format_date(date, now) ==
    IF date = today_text THEN [panic |-> FALSE, value |-> format(now)]
    ELSE Let(parse_from_str(date), LAMBDA parsed :
           Let(IF parsed.ok THEN format(parsed.date) ELSE <<>>, LAMBDA formatted_date :
             IF formatted_date = <<>> THEN [panic |-> TRUE]
             ELSE [panic |-> FALSE, value |-> formatted_date]))

(***************************************************************************)
(* Rust's str and Vec<String>, as handle_request calls them.               *)
(***************************************************************************)
\* The places of s at which sep occurs.
Occurrences(s, sep) ==
    {i \in 1..Len(s) : i + Len(sep) - 1 <= Len(s) /\ SubSeq(s, i, i + Len(sep) - 1) = sep}

\* s.split(sep).last().unwrap(): what follows the last occurrence of sep, all of s
\* if there is none.  (No separator of the program overlaps itself, so the last
\* piece starts after the last occurrence.)
split_last(s, sep) ==
    \* the empty set has no largest element, so 0 stands for "no occurrence"
    LET last == CHOOSE i \in Occurrences(s, sep) \cup {0} :
                    \A j \in Occurrences(s, sep) : j <= i
    IN  IF last = 0 THEN s ELSE SubSeq(s, last + Len(sep), Len(s))

\* s.split(sep).next().unwrap(): what precedes the first occurrence of sep, all of
\* s if there is none.
split_next(s, sep) ==
    LET first == CHOOSE i \in Occurrences(s, sep) \cup {Len(s) + 1} :
                     \A j \in Occurrences(s, sep) : i <= j
    IN  SubSeq(s, 1, first - 1)

is_whitespace(c) == c \in {" ", "\t", "\n", "\r"}

\* str::trim
trim(s) ==
    LET kept == {i \in 1..Len(s) : ~is_whitespace(s[i])}
    IN  IF kept = {} THEN <<>>
        ELSE SubSeq(s, CHOOSE i \in kept : \A j \in kept : i <= j,
                       CHOOSE i \in kept : \A j \in kept : j <= i)

\* Every character of s is an ASCII digit, and there is one.
AllDigits(s) == s /= <<>> /\ \A i \in 1..Len(s) : is_ascii_digit(s[i])

\* str::parse::<usize>: an optional + and decimal digits, nothing else.  (No text
\* of the model has digits enough to overflow.)
parse_usize(s) ==
    LET digits == IF s /= <<>> /\ Head(s) = "+" THEN Tail(s) ELSE s
    IN  IF AllDigits(digits) THEN [ok |-> TRUE, value |-> DecimalValue(digits, Len(digits))]
        ELSE [ok |-> FALSE]

\* str::parse::<i32>: an optional + or - and decimal digits, nothing else.
parse_i32(s) ==
    LET digits == IF s /= <<>> /\ Head(s) \in {"+", "-"} THEN Tail(s) ELSE s
    IN  IF ~AllDigits(digits) THEN [ok |-> FALSE]
        ELSE IF Head(s) = "-"
        THEN [ok |-> TRUE, value |-> 0 - DecimalValue(digits, Len(digits))]
        ELSE [ok |-> TRUE, value |-> DecimalValue(digits, Len(digits))]

\* i32::to_string of an id (never negative).
to_string(n) == ZeroPadded(n, 1)

\* lines.join("\n"), from line i on.
RECURSIVE joinFrom(_, _)
joinFrom(ls, i) ==
    IF i > Len(ls) THEN <<>>
    ELSE IF i = Len(ls) THEN ls[i]
    ELSE ls[i] \o <<"\n">> \o joinFrom(ls, i + 1)

join(ls) == joinFrom(ls, 1)

\* str::replace(from, to), from character i on: every occurrence of from, left to
\* right, becomes to.
RECURSIVE replaceFrom(_, _, _, _)
replaceFrom(s, from, to, i) ==
    IF i > Len(s) THEN <<>>
    ELSE IF i + Len(from) - 1 <= Len(s) /\ SubSeq(s, i, i + Len(from) - 1) = from
    THEN to \o replaceFrom(s, from, to, i + Len(from))
    ELSE <<s[i]>> \o replaceFrom(s, from, to, i + 1)

replace(s, from, to) == replaceFrom(s, from, to, 1)

\* Read::take(n).read_to_string: the next n bytes the client sent, fewer if it
\* sent fewer and finished.
take(payload, n) == SubSeq(payload, 1, IF n < Len(payload) THEN n ELSE Len(payload))

(***************************************************************************)
(* serde_json::from_str::<HashMap<String, String>>: a JSON object all of   *)
(* whose values are strings, as a function from its keys to their values;  *)
(* anything else is Err.  A key given twice keeps its last value.  Of the  *)
(* escapes of a JSON string, \" \\ \/ \n \t and \r are modelled; no body   *)
(* of the model has another.                                               *)
(***************************************************************************)
JsonError == [ok |-> FALSE]

\* The first place from i on that holds no JSON whitespace.
RECURSIVE SkipWhitespace(_, _)
SkipWhitespace(s, i) ==
    IF i <= Len(s) /\ is_whitespace(s[i]) THEN SkipWhitespace(s, i + 1) ELSE i

\* The character s has at place i is c.
At(s, i, c) == i <= Len(s) /\ s[i] = c

\* The character an escape stands for.
Unescape(c) ==
    IF c = "n" THEN "\n" ELSE IF c = "t" THEN "\t" ELSE IF c = "r" THEN "\r" ELSE c

\* A string whose opening quote has been read, from place i on:
\* [ok, value, next], next being the place after the closing quote.
RECURSIVE JsonString(_, _)
JsonString(s, i) ==
    IF i > Len(s) THEN JsonError
    ELSE IF s[i] = "\"" THEN [ok |-> TRUE, value |-> <<>>, next |-> i + 1]
    ELSE IF s[i] \in {"\n", "\t", "\r"} THEN JsonError
    ELSE IF s[i] = "\\"
    THEN IF i + 1 > Len(s) \/ s[i + 1] \notin {"\"", "\\", "/", "n", "t", "r"}
         THEN JsonError
         ELSE Let(JsonString(s, i + 2), LAMBDA rest :
                IF ~rest.ok THEN JsonError
                ELSE [rest EXCEPT !.value = <<Unescape(s[i + 1])>> \o rest.value])
    ELSE Let(JsonString(s, i + 1), LAMBDA rest :
           IF ~rest.ok THEN JsonError
           ELSE [rest EXCEPT !.value = <<s[i]>> \o rest.value])

\* map with key bound to value.
insert(map, key, value) ==
    [k \in DOMAIN map \cup {key} |-> IF k = key THEN value ELSE map[k]]

\* HashMap::get
get(map, key) == IF key \in DOMAIN map THEN Some(map[key]) ELSE None

\* The members of an object from place i on, where a key is due, map holding the
\* members read before: "key" : "value", then a comma and more, or the closing
\* brace and nothing but whitespace.
RECURSIVE JsonMembers(_, _, _)
JsonMembers(s, i, map) ==
    IF ~At(s, i, "\"") THEN JsonError ELSE
    Let(JsonString(s, i + 1), LAMBDA key :
      IF ~key.ok THEN JsonError ELSE
      Let(SkipWhitespace(s, key.next), LAMBDA colon :
        IF ~At(s, colon, ":") THEN JsonError ELSE
        Let(SkipWhitespace(s, colon + 1), LAMBDA quote :
          IF ~At(s, quote, "\"") THEN JsonError ELSE
          Let(JsonString(s, quote + 1), LAMBDA value :
            IF ~value.ok THEN JsonError ELSE
            Let(SkipWhitespace(s, value.next), LAMBDA after :
              IF At(s, after, ",")
              THEN JsonMembers(s, SkipWhitespace(s, after + 1),
                               insert(map, key.value, value.value))
              ELSE IF At(s, after, "}") /\ SkipWhitespace(s, after + 1) > Len(s)
              THEN [ok |-> TRUE, map |-> insert(map, key.value, value.value)]
              ELSE JsonError)))))

\* serde_json::from_str(s): Ok(map) as [ok |-> TRUE, map |-> m], Err as
\* [ok |-> FALSE].
from_str(s) ==
    Let(SkipWhitespace(s, 1), LAMBDA open :
      IF ~At(s, open, "{") THEN JsonError ELSE
      Let(SkipWhitespace(s, open + 1), LAMBDA first :
        IF At(s, first, "}")
        THEN IF SkipWhitespace(s, first + 1) > Len(s)
             THEN [ok |-> TRUE, map |-> <<>>]
             ELSE JsonError
        ELSE JsonMembers(s, first, <<>>)))

(***************************************************************************)
(* main.rs: the texts of handle_request and what it renders.               *)
(***************************************************************************)
ContentLengthPrefix ==
    <<"C", "o", "n", "t", "e", "n", "t", "-", "L", "e", "n", "g", "t", "h", ":",
      " ">>

GetIndexPrefix ==
    <<"G", "E", "T", " ", "/", " ", "H", "T", "T", "P", "/", "1", ".", "1">>

GetStylesPrefix ==
    <<"G", "E", "T", " ", "/", "s", "t", "y", "l", "e", "s", ".", "c", "s", "s",
      " ", "H", "T", "T", "P", "/", "1", ".", "1">>

GetCreatePrefix ==
    <<"G", "E", "T", " ", "/", "c", "r", "e", "a", "t", "e", " ", "H", "T", "T",
      "P", "/", "1", ".", "1">>

PostCreateJobPrefix ==
    <<"P", "O", "S", "T", " ", "/", "c", "r", "e", "a", "t", "e", "_", "j", "o",
      "b", " ", "H", "T", "T", "P", "/", "1", ".", "1">>

PostDeletePrefix ==
    <<"P", "O", "S", "T", " ", "/", "d", "e", "l", "e", "t", "e", "/">>

PostExportPrefix ==
    <<"P", "O", "S", "T", " ", "/", "e", "x", "p", "o", "r", "t", " ", "H", "T",
      "T", "P", "/", "1", ".", "1">>

HttpVersionSuffix ==
    <<" ", "H", "T", "T", "P", "/", "1", ".", "1">>

title_key ==
    <<"t", "i", "t", "l", "e">>

description_key ==
    <<"d", "e", "s", "c", "r", "i", "p", "t", "i", "o", "n">>

format_key ==
    <<"f", "o", "r", "m", "a", "t">>

json_text ==
    <<"j", "s", "o", "n">>

csv_text ==
    <<"c", "s", "v">>

JobCreatedText ==
    <<"J", "o", "b", " ", "c", "r", "e", "a", "t", "e", "d", " ", "s", "u", "c",
      "c", "e", "s", "s", "f", "u", "l", "l", "y">>

InvalidFormatText ==
    <<"I", "n", "v", "a", "l", "i", "d", " ", "f", "o", "r", "m", "a", "t">>

NotFoundText ==
    <<"4", "0", "4", " ", "N", "o", "t", " ", "F", "o", "u", "n", "d">>

\* The files of static/ that include_str! builds into the program.  Of index.html
\* the model keeps the marker the rows are put in place of, of the two others
\* nothing.
ContentMarker ==
    <<"{", "c", "o", "n", "t", "e", "n", "t", "}">>

index_html == ContentMarker

styles_css == <<>>

create_html == <<>>

\* Route testing GET requests by "GET /" alone.
Route_any_get(text) ==
    IF starts_with(text, SubSeq(GetIndexPrefix, 1, 5)) THEN "index"
    ELSE IF starts_with(text, PostCreateJobPrefix) THEN "create_job"
    ELSE IF starts_with(text, PostDeletePrefix) THEN "delete"
    ELSE IF starts_with(text, PostExportPrefix) THEN "export"
    ELSE "not_found"

\* The route the chain of starts_with tests of handle_request takes for the
\* request line (the header lines joined), the first that matches.
Route(text) ==
    IF starts_with(text, GetIndexPrefix) THEN "index"
    ELSE IF starts_with(text, GetStylesPrefix) THEN "styles"
    ELSE IF starts_with(text, GetCreatePrefix) THEN "create"
    ELSE IF starts_with(text, PostCreateJobPrefix) THEN "create_job"
    ELSE IF starts_with(text, PostDeletePrefix) THEN "delete"
    ELSE IF starts_with(text, PostExportPrefix) THEN "export"
    ELSE "not_found"

\* The id in the first line of a POST /delete/ request: what stands between
\* "POST /delete/" and " HTTP/1.1", trimmed, parsed as an i32.
DeleteId(first_line) ==
    parse_i32(trim(split_next(split_last(first_line, PostDeletePrefix), HttpVersionSuffix)))

DeleteFormOpen ==
    <<"<", "f", "o", "r", "m", " ", "a", "c", "t", "i", "o", "n", "=", "\"", "/",
      "d", "e", "l", "e", "t", "e", "/">>

DeleteFormRest ==
    <<"\"", " ", "m", "e", "t", "h", "o", "d", "=", "\"", "P", "O", "S", "T", "\"",
      " ", "c", "l", "a", "s", "s", "=", "'", "d", "e", "l", "e", "t", "e", "-",
      "b", "t", "n", "-", "f", "o", "r", "m", "'", ">", "\n", " ", " ", " ", " ",
      " ", " ", " ", " ", " ", " ", " ", " ", " ", " ", " ", " ", " ", " ", " ",
      " ", "<", "b", "u", "t", "t", "o", "n", " ", "t", "y", "p", "e", "=", "\"",
      "s", "u", "b", "m", "i", "t", "\"", ">", "D", "e", "l", "e", "t", "e", "<",
      "/", "b", "u", "t", "t", "o", "n", ">", "\n", " ", " ", " ", " ", " ", " ",
      " ", " ", " ", " ", " ", " ", " ", " ", " ", " ", "<", "/", "f", "o", "r",
      "m", ">">>

\* The form with the delete button of a row.
delete_button(id) == DeleteFormOpen \o to_string(id) \o DeleteFormRest

RowOpen ==
    <<"<", "t", "r", ">">>

RowClose ==
    <<"<", "/", "t", "r", ">">>

CellOpen ==
    <<"<", "t", "d", ">">>

CellClose ==
    <<"<", "/", "t", "d", ">">>

Cell(content) == CellOpen \o content \o CellClose

\* The table row of GET / for one job; date is its date as a NaiveDate.
TableRow(job, date) ==
    RowOpen \o Cell(to_string(job.id)) \o Cell(job.title) \o Cell(job.description)
        \o Cell(format_with(date, "/")) \o Cell(delete_button(job.id)) \o RowClose

\* job_list of GET /, from job i on.  (The jobs' dates parse: the handler has
\* panicked otherwise.)
RECURSIVE job_list(_, _)
job_list(listed, i) ==
    IF i > Len(listed) THEN <<>>
    ELSE TableRow(listed[i], parse_from_str(listed[i].date).date) \o job_list(listed, i + 1)

\* Format::from_str
Format_from_str(s) ==
    IF [i \in 1..Len(s) |-> to_ascii_lowercase(s[i])] = json_text
    THEN [ok |-> TRUE, value |-> "Json"]
    ELSE IF [i \in 1..Len(s) |-> to_ascii_lowercase(s[i])] = csv_text
    THEN [ok |-> TRUE, value |-> "Csv"]
    ELSE [ok |-> FALSE]

JsonId ==
    <<"{", "\"", "i", "d", "\"", ":", " ">>

JsonTitle ==
    <<",", " ", "\"", "t", "i", "t", "l", "e", "\"", ":", " ", "\"">>

JsonDescription ==
    <<"\"", ",", " ", "\"", "d", "e", "s", "c", "r", "i", "p", "t", "i", "o", "n",
      "\"", ":", " ", "\"">>

JsonDate ==
    <<"\"", ",", " ", "\"", "d", "a", "t", "e", "\"", ":", " ", "\"">>

JsonClose ==
    <<"\"", "}">>

\* job_json of export_jobs_to_bytes.
job_json(job) ==
    JsonId \o to_string(job.id) \o JsonTitle \o job.title \o JsonDescription
        \o job.description \o JsonDate \o job.date \o JsonClose

\* The lines of the JSON export for the jobs from job i on, each but the last
\* followed by a comma.
RECURSIVE JsonLines(_, _)
JsonLines(listed, i) ==
    IF i > Len(listed) THEN <<>>
    ELSE job_json(listed[i]) \o (IF i < Len(listed) THEN <<",", "\n">> ELSE <<"\n">>)
            \o JsonLines(listed, i + 1)

\* A field as csv::Writer writes it: in quotes, its quotes doubled, if it holds a
\* comma, a quote or a line break.
RECURSIVE DoubledQuotes(_, _)
DoubledQuotes(field, i) ==
    IF i > Len(field) THEN <<>>
    ELSE (IF field[i] = "\"" THEN <<"\"", "\"">> ELSE <<field[i]>>)
            \o DoubledQuotes(field, i + 1)

csv_field(field) ==
    IF \E i \in 1..Len(field) : field[i] \in {",", "\"", "\n", "\r"}
    THEN <<"\"">> \o DoubledQuotes(field, 1) \o <<"\"">>
    ELSE field

\* wtr.write_record(row)
write_record(row) ==
    csv_field(row[1]) \o <<",">> \o csv_field(row[2]) \o <<",">> \o csv_field(row[3])
        \o <<",">> \o csv_field(row[4]) \o <<"\n">>

CsvHeaders ==
    << <<"i", "d">>,
       <<"t", "i", "t", "l", "e">>,
       <<"d", "e", "s", "c", "r", "i", "p", "t", "i", "o", "n">>,
       <<"d", "a", "t", "e">> >>

\* The records of the CSV export for the jobs from job i on.
RECURSIVE CsvRecords(_, _)
CsvRecords(listed, i) ==
    IF i > Len(listed) THEN <<>>
    ELSE write_record(<<to_string(listed[i].id), listed[i].title,
                        listed[i].description, listed[i].date>>)
            \o CsvRecords(listed, i + 1)

\* export_jobs_to_bytes(jobs, format)
export_jobs_to_bytes(listed, fmt) ==
    IF fmt = "Json" THEN <<"[", "\n">> \o JsonLines(listed, 1) \o <<"]", "\n">>
    ELSE write_record(CsvHeaders) \o CsvRecords(listed, 1)

\* A response as handle_request formats it: the status of the status line, the
\* headers in their order, the body.
Header(name, value) == [name |-> name, value |-> value]

\* format!("HTTP/1.1 <status>\r\nContent-Type: {}\r\nContent-Length: {}\r\n\r\n{}",
\*         content_type, content.len(), content)
Response(status, content_type, content) ==
    [status |-> status,
     headers |-> <<Header("Content-Type", content_type),
                   Header("Content-Length", Len(content))>>,
     body |-> content]

\* "HTTP/1.1 303 See Other\r\nLocation: /\r\n\r\n"
SeeOther ==
    [status |-> 303, headers |-> <<Header("Location", "/")>>, body |-> <<>>]

\* No connection has been accepted yet.
NoStream ==
    [state |-> "none", sent |-> <<>>, payload |-> <<>>, next |-> 1, written |-> <<>>]

(***************************************************************************)
(* The inputs the model draws.                                             *)
(***************************************************************************)
\* Titles and descriptions given to add.
JobTexts ==
    { [title |-> <<"E", "n">>, description |-> <<"g", "o">>],
      [title |-> <<"5", "%">>, description |-> <<"n", "o">>] }

Feb15 == <<"1", "5", "-", "0", "2", "-", "2", "0", "2", "4">>
Mar1Short == <<"1", "-", "3", "-", "2", "0", "2", "4">>
Mar1 == <<"0", "1", "-", "0", "3", "-", "2", "0", "2", "4">>
Feb31 == <<"3", "1", "-", "0", "2", "-", "2", "0", "2", "4">>
YearOnly == <<"2", "0", "2", "4">>

\* The optional date given to add: none, two dates (one not zero-padded), the
\* 31st of February and a year alone.
DateArgs == {None, Some(Feb15), Some(Mar1Short), Some(Feb31), Some(YearOnly)}

\* The local dates Local::now() may give.
Today ==
    { [year |-> 2024, month |-> 3, day |-> 1],
      [year |-> 2024, month |-> 2, day |-> 15] }

\* The filters given to search, as (title, description, date).  clap gives an
\* omitted filter as Some("") (default_value = ""), so the command never passes
\* None.
Filters(title, description, date) ==
    [title |-> Some(title), description |-> Some(description), date |-> Some(date)]

SearchArgs ==
    { Filters(<<>>, <<>>, <<>>),
      Filters(<<"n">>, <<>>, <<>>),
      Filters(<<"%">>, <<>>, <<>>),
      Filters(<<"_">>, <<>>, <<>>),
      Filters(<<"'">>, <<>>, <<>>),
      Filters(<<>>, <<"g">>, <<>>),
      Filters(<<>>, <<>>, Feb15),
      Filters(<<>>, <<>>, Mar1Short),
      Filters(<<>>, <<>>, YearOnly),
      Filters(<<>>, <<>>, Feb31),
      Filters(<<"n">>, <<"g">>, <<>>),
      Filters(<<"n">>, <<"g">>, Mar1Short),
      Filters(<<"n">>, <<"g">>, YearOnly),
      Filters(<<"'">>, <<>>, YearOnly) }

\* The ids given to remove.
RemoveIds == 0..MaxId

HostHeader ==
    <<"H", "o", "s", "t", ":", " ", "l", "o", "c", "a", "l", "h", "o", "s", "t">>

\* The header Content-Length with the decimal text of n.
ContentLengthHeader(n) == ContentLengthPrefix \o to_string(n)

\* What a client sends: the lines up to and with the empty line that ends the
\* header block (BufRead::lines gives them without their line ends), then the
\* payload.
Request(first_line, headers, payload) ==
    [sent |-> <<first_line>> \o headers \o << <<>> >>, payload |-> payload]

\* A request with a payload and the Content-Length that counts it.
RequestWithBody(first_line, payload) ==
    Request(first_line, <<ContentLengthHeader(Len(payload))>>, payload)

DeleteLine(id) == PostDeletePrefix \o id \o HttpVersionSuffix

CreateEnGo ==
    <<"{", "\"", "t", "i", "t", "l", "e", "\"", ":", "\"", "E", "n", "\"", ",",
      "\"", "d", "e", "s", "c", "r", "i", "p", "t", "i", "o", "n", "\"", ":", "\"",
      "g", "o", "\"", "}">>

CreatePercentNo ==
    <<"{", " ", "\"", "d", "e", "s", "c", "r", "i", "p", "t", "i", "o", "n", "\"",
      ":", " ", "\"", "n", "o", "\"", ",", " ", "\"", "t", "i", "t", "l", "e",
      "\"", ":", " ", "\"", "5", "%", "\"", " ", "}">>

CreateEmpty ==
    <<"{", "\"", "t", "i", "t", "l", "e", "\"", ":", "\"", "\"", ",", "\"", "d",
      "e", "s", "c", "r", "i", "p", "t", "i", "o", "n", "\"", ":", "\"", "\"", "}">>

NotJson ==
    <<"t", "i", "t", "l", "e", "=", "E", "n">>

TitleOnly ==
    <<"{", "\"", "t", "i", "t", "l", "e", "\"", ":", "\"", "E", "n", "\"", "}">>

ExportJson ==
    <<"{", "\"", "f", "o", "r", "m", "a", "t", "\"", ":", "\"", "j", "s", "o", "n",
      "\"", "}">>

ExportCsv ==
    <<"{", "\"", "f", "o", "r", "m", "a", "t", "\"", ":", "\"", "c", "s", "v",
      "\"", "}">>

ExportXml ==
    <<"{", "\"", "f", "o", "r", "m", "a", "t", "\"", ":", "\"", "x", "m", "l",
      "\"", "}">>

ExportUpper ==
    <<"{", "\"", "f", "o", "r", "m", "a", "t", "\"", ":", "\"", "J", "S", "O", "N",
      "\"", "}">>

NotANumber ==
    <<"a", "b", "c">>

GetNothingLine ==
    <<"G", "E", "T", " ", "/", "n", "o", "t", "h", "i", "n", "g", " ", "H", "T",
      "T", "P", "/", "1", ".", "1">>

\* The requests clients send.  The last but one ends before its header block
\* does; the last is two requests sent one after the other on one connection.
Requests ==
    { Request(GetIndexPrefix, <<HostHeader>>, <<>>),
      Request(GetStylesPrefix, <<>>, <<>>),
      Request(GetCreatePrefix, <<>>, <<>>),
      RequestWithBody(PostCreateJobPrefix, CreateEnGo),
      RequestWithBody(PostCreateJobPrefix, CreatePercentNo),
      RequestWithBody(PostCreateJobPrefix, CreateEmpty),
      RequestWithBody(PostCreateJobPrefix, NotJson),
      RequestWithBody(PostCreateJobPrefix, TitleOnly),
      Request(PostCreateJobPrefix, <<ContentLengthPrefix \o NotANumber>>, CreateEnGo),
      Request(PostCreateJobPrefix, <<HostHeader>>, CreateEnGo),
      Request(DeleteLine(<<"1">>), <<>>, <<>>),
      Request(DeleteLine(<<"2">>), <<>>, <<>>),
      Request(DeleteLine(NotANumber), <<>>, <<>>),
      RequestWithBody(PostExportPrefix, ExportJson),
      RequestWithBody(PostExportPrefix, ExportCsv),
      RequestWithBody(PostExportPrefix, ExportXml),
      RequestWithBody(PostExportPrefix, ExportUpper),
      Request(GetNothingLine, <<>>, <<>>),
      Request(GetNothingLine, <<ContentLengthPrefix \o NotANumber>>, <<>>),
      [sent |-> <<GetNothingLine, HostHeader>>, payload |-> <<>>],
      [sent |-> <<GetStylesPrefix, <<>>, GetCreatePrefix, <<>> >>, payload |-> <<>>] }

(***************************************************************************)
(* The commands (main.rs, main).                                           *)
(***************************************************************************)
\* Commands::Add: format_date on the date given, or on "today" when none is, then
\* add_job.  A date that does not parse panics in format_date, before add_job.
CliAdd(title, description, date, now) ==
    \E d \in {format_date(IF is_none(date) THEN today_text ELSE unwrap(date), now)} :
        \/ /\ d.panic
           /\ out' = [cmd |-> "add", panic |-> TRUE]
           /\ UNCHANGED <<jobs, assigned, recreated, server>>
        \/ /\ ~d.panic
           /\ NewRowid(jobs) <= MaxId
           /\ add_job(title, description, d.value)
           /\ out' = [cmd |-> "add", panic |-> FALSE]
           /\ UNCHANGED server

\* Commands::List: list_jobs, displayed.
CliList ==
    /\ out' = [cmd |-> "list", panic |-> FALSE, jobs |-> list_jobs(jobs)]
    /\ UNCHANGED <<jobs, assigned, recreated, server>>

\* Commands::Search: seach_jobs on the three filters, displayed.
CliSearch(title, description, date) ==
    \E found \in {seach_jobs(jobs, title, description, date)} :
        /\ out' = [cmd |-> "search", title |-> title, description |-> description,
                   date |-> date, panic |-> found.panic,
                   jobs |-> IF found.panic THEN <<>> ELSE found.jobs]
        /\ UNCHANGED <<jobs, assigned, recreated, server>>

\* Commands::Remove: remove_job.
CliRemove(id) ==
    /\ remove_job(id)
    /\ out' = [cmd |-> "remove", panic |-> FALSE, id |-> id]
    /\ UNCHANGED server

\* Commands::Clear: drop_db.
CliClear ==
    /\ drop_db
    /\ out' = [cmd |-> "clear", panic |-> FALSE]
    /\ UNCHANGED server

(***************************************************************************)
(* The serve command (main.rs, serve_jobs and handle_request).  One thread *)
(* accepts a connection and runs handle_request on it to its end before it *)
(* accepts the next.  A panic in handle_request is a panic of that thread, *)
(* the only one: the process ends, and with it every connection it holds.  *)
(* The texts of the model are ASCII and the clients keep their end open    *)
(* until the server closes, so reading a line, reading the body and        *)
(* write_all do not fail.                                                  *)
(***************************************************************************)
\* Commands::Serve: serve_jobs binds the port and goes to accept.
CliServe ==
    /\ pc = "off"
    /\ pc' = "accept"
    /\ UNCHANGED <<jobs, assigned, recreated, out, pending, stream, lines, content_length,
                   body>>

\* A client connects while the port is bound: the connection waits, with at most
\* MaxPending others, until serve_jobs takes it.  (Before the port is bound and
\* after the process has ended, a connection is refused.)
Connect ==
    /\ pc \notin {"off", "panicked"}
    /\ pending < MaxPending
    /\ pending' = pending + 1
    /\ UNCHANGED <<jobs, assigned, recreated, out, pc, stream, lines, content_length, body>>

\* Accept taking a connection at any time, also while handle_request runs on
\* another.
Accept_concurrent(request) ==
    /\ pc \notin {"off", "panicked"}
    /\ pending > 0
    /\ pending' = pending - 1
    /\ stream' = [state |-> "open", sent |-> request.sent, payload |-> request.payload,
                  next |-> 1, written |-> <<>>]
    /\ lines' = <<>>
    /\ content_length' = 0
    /\ body' = <<>>
    /\ pc' = "headers"
    /\ UNCHANGED <<jobs, assigned, recreated, out>>

\* serve_jobs takes the connection that has waited longest and calls
\* handle_request, which starts with no line read and content_length 0; request
\* is what its client sends.  (A request for a new job is taken
\* only while the table has room for a row within the bound.)
Accept(request) ==
    /\ pc = "accept"
    /\ pending > 0
    /\ pending' = pending - 1
    /\ starts_with(request.sent[1], PostCreateJobPrefix) => NewRowid(jobs) <= MaxId
    /\ stream' = [state |-> "open", sent |-> request.sent, payload |-> request.payload,
                  next |-> 1, written |-> <<>>]
    /\ lines' = <<>>
    /\ content_length' = 0
    /\ body' = <<>>
    /\ pc' = "headers"
    /\ UNCHANGED <<jobs, assigned, recreated, out>>

\* An unwrap or expect of handle_request panics: the process ends and the
\* connection closes with what has been written on it, nothing more.
Panic ==
    /\ pc' = "panicked"
    /\ stream' = [stream EXCEPT !.state = "closed"]
    /\ lines' = <<>>
    /\ content_length' = 0
    /\ body' = <<>>

\* One turn of the loop over the lines: the empty line, or the end of what the
\* client sends, ends the loop; a line that starts with "Content-Length: " sets
\* content_length to the number after it, or panics if it is none; every line
\* but the empty one is pushed.
ReadLine ==
    /\ pc = "headers"
    /\ UNCHANGED <<jobs, assigned, recreated, out, pending>>
    /\ IF stream.next > Len(stream.sent)
       THEN /\ pc' = "body"
            /\ UNCHANGED <<stream, lines, content_length, body>>
       ELSE \E line \in {stream.sent[stream.next]} :
              IF line = <<>>
              THEN /\ pc' = "body"
                   /\ stream' = [stream EXCEPT !.next = stream.next + 1]
                   /\ UNCHANGED <<lines, content_length, body>>
              ELSE IF starts_with(line, ContentLengthPrefix)
              THEN \E length \in {parse_usize(split_last(line, ContentLengthPrefix))} :
                     IF ~length.ok THEN Panic
                     ELSE /\ content_length' = length.value
                          /\ lines' = Append(lines, line)
                          /\ stream' = [stream EXCEPT !.next = stream.next + 1]
                          /\ UNCHANGED <<pc, body>>
              ELSE /\ lines' = Append(lines, line)
                   /\ stream' = [stream EXCEPT !.next = stream.next + 1]
                   /\ UNCHANGED <<pc, content_length, body>>

\* The body is read if content_length > 0, and is empty otherwise.
ReadBody ==
    /\ pc = "body"
    /\ body' = IF content_length > 0 THEN take(stream.payload, content_length) ELSE <<>>
    /\ pc' = "dispatch"
    /\ UNCHANGED <<jobs, assigned, recreated, out, pending, stream, lines,
                   content_length>>

\* let request_line = lines.join("\n")
request_line == join(lines)

\* stream.write_all(response.as_bytes()), the last thing every route does.
write_all(response) ==
    /\ stream' = [stream EXCEPT !.written = Append(stream.written, response)]
    /\ pc' = "return"
    /\ UNCHANGED <<lines, content_length, body>>

\* GET /: the jobs listed, each a row of the table of index.html.
GetIndex ==
    /\ pc = "dispatch"
    /\ Route(request_line) = "index"
    /\ UNCHANGED <<jobs, assigned, recreated, out, pending>>
    /\ \E listed \in {list_jobs(jobs)} :
         IF \E i \in 1..Len(listed) : ~parse_from_str(listed[i].date).ok
         THEN Panic
         ELSE write_all(Response(200, "text/html",
                                 replace(index_html, ContentMarker, job_list(listed, 1))))

\* GET /styles.css
GetStyles ==
    /\ pc = "dispatch"
    /\ Route(request_line) = "styles"
    /\ UNCHANGED <<jobs, assigned, recreated, out, pending>>
    /\ write_all(Response(200, "text/css", styles_css))

\* GET /create
GetCreate ==
    /\ pc = "dispatch"
    /\ Route(request_line) = "create"
    /\ UNCHANGED <<jobs, assigned, recreated, out, pending>>
    /\ write_all(Response(200, "text/html", create_html))

\* POST /create_job: the body parsed as a JSON object of strings, its title and
\* description added as a job of today; each of the three unwraps panics on what
\* it does not find.
PostCreateJob(now) ==
    /\ pc = "dispatch"
    /\ Route(request_line) = "create_job"
    /\ UNCHANGED <<out, pending>>
    /\ \E b \in {from_str(body)} :
         IF \/ ~b.ok
            \/ is_none(get(b.map, title_key))
            \/ is_none(get(b.map, description_key))
         THEN /\ Panic
              /\ UNCHANGED <<jobs, assigned, recreated>>
         ELSE \E date \in {format_date(today_text, now)} :
                /\ add_job(unwrap(get(b.map, title_key)),
                           unwrap(get(b.map, description_key)), date.value)
                /\ write_all(Response(200, "text/plain", JobCreatedText))

\* POST /delete/<id>: the id parsed from the first line, or a panic if it is no
\* number; remove_job; a redirect to /.
PostDelete ==
    /\ pc = "dispatch"
    /\ Route(request_line) = "delete"
    /\ UNCHANGED <<out, pending>>
    /\ \E id \in {DeleteId(lines[1])} :
         IF ~id.ok
         THEN /\ Panic
              /\ UNCHANGED <<jobs, assigned, recreated>>
         ELSE /\ remove_job(id.value)
              /\ write_all(SeeOther)

\* PostExport answering 400 only for what Format::from_str does not take, which
\* compares in lower case.
PostExport_any_case ==
    /\ pc = "dispatch"
    /\ Route(request_line) = "export"
    /\ UNCHANGED <<jobs, assigned, recreated, out, pending>>
    /\ \E b \in {from_str(body)} :
         IF ~b.ok \/ is_none(get(b.map, format_key))
         THEN Panic
         ELSE \E fmt \in {Format_from_str(unwrap(get(b.map, format_key)))} :
                IF ~fmt.ok
                THEN write_all(Response(400, "text/text", InvalidFormatText))
                ELSE write_all(Response(200,
                         IF fmt.value = "Json" THEN "application/json" ELSE "text/csv",
                         export_jobs_to_bytes(list_jobs(jobs), fmt.value)))

\* POST /export: the body parsed as a JSON object of strings; its format must be
\* json or csv as written, anything else is answered 400; the jobs listed and
\* exported in the format.  (Format::from_str takes what the test before it has
\* let through; if it did not, the closure would write a 400 and the unwrap
\* panic.)
PostExport ==
    /\ pc = "dispatch"
    /\ Route(request_line) = "export"
    /\ UNCHANGED <<jobs, assigned, recreated, out, pending>>
    /\ \E b \in {from_str(body)} :
         IF ~b.ok \/ is_none(get(b.map, format_key))
         THEN Panic
         ELSE \E fmt \in {unwrap(get(b.map, format_key))} :
                IF fmt /= json_text /\ fmt /= csv_text
                THEN write_all(Response(400, "text/text", InvalidFormatText))
                ELSE IF ~Format_from_str(fmt).ok
                THEN /\ pc' = "panicked"
                     /\ stream' = [stream EXCEPT
                            !.written = Append(stream.written,
                                               Response(400, "text/text", InvalidFormatText)),
                            !.state = "closed"]
                     /\ lines' = <<>>
                     /\ content_length' = 0
                     /\ body' = <<>>
                ELSE write_all(Response(200,
                         IF fmt = json_text THEN "application/json" ELSE "text/csv",
                         export_jobs_to_bytes(list_jobs(jobs), Format_from_str(fmt).value)))

\* Every other request: 404.
NotFound ==
    /\ pc = "dispatch"
    /\ Route(request_line) = "not_found"
    /\ UNCHANGED <<jobs, assigned, recreated, out, pending>>
    /\ write_all(Response(404, "text/text", NotFoundText))

\* handle_request going on to read a next request from the connection instead of
\* returning.
Return_keep_alive ==
    /\ pc = "return"
    /\ pc' = "headers"
    /\ lines' = <<>>
    /\ content_length' = 0
    /\ body' = <<>>
    /\ UNCHANGED <<jobs, assigned, recreated, out, pending, stream>>

\* handle_request returns: its locals and the stream are dropped, which closes the
\* connection, and serve_jobs goes to accept again.
Return ==
    /\ pc = "return"
    /\ pc' = "accept"
    /\ stream' = [stream EXCEPT !.state = "closed"]
    /\ lines' = <<>>
    /\ content_length' = 0
    /\ body' = <<>>
    /\ UNCHANGED <<jobs, assigned, recreated, out, pending>>
(***************************************************************************)
(* The specifications.                                                     *)
(***************************************************************************)
\* The database as get_db creates it on the first run.
Init ==
    /\ jobs = {}
    /\ assigned = {}
    /\ recreated = FALSE
    /\ out = [cmd |-> "none", panic |-> FALSE]
    /\ pc = "off"
    /\ pending = 0
    /\ stream = NoStream
    /\ lines = <<>>
    /\ content_length = 0
    /\ body = <<>>

NextCli ==
    \/ \E text \in JobTexts, date \in DateArgs, now \in Today :
           CliAdd(text.title, text.description, date, now)
    \/ CliList
    \/ \E args \in SearchArgs : CliSearch(args.title, args.description, args.date)
    \/ \E id \in RemoveIds : CliRemove(id)
    \/ CliClear

\* The program used from the command line only.
SpecCli == Init /\ [][NextCli]_vars

NextServe ==
    \/ CliServe
    \/ Connect
    \/ \E request \in Requests : Accept(request)
    \/ ReadLine
    \/ ReadBody
    \/ GetIndex
    \/ GetStyles
    \/ GetCreate
    \/ \E now \in Today : PostCreateJob(now)
    \/ PostDelete
    \/ PostExport
    \/ NotFound
    \/ Return

\* The program run as serve, from a new database.
SpecServe == Init /\ [][NextServe]_vars

\* A step of handle_request on the connection taken.
HandleStep ==
    \/ ReadLine
    \/ ReadBody
    \/ GetIndex
    \/ GetStyles
    \/ GetCreate
    \/ \E now \in Today : PostCreateJob(now)
    \/ PostDelete
    \/ PostExport
    \/ NotFound
    \/ Return

\* serve with its thread running: the port gets bound, accept returns when a
\* connection waits, and handle_request goes on to its end.  Clients connect as
\* they please.
SpecServeFair ==
    /\ SpecServe
    /\ WF_vars(CliServe)
    /\ WF_vars(\E request \in Requests : Accept(request))
    /\ WF_vars(HandleStep)

\* The requests of clients that list, create and delete and do nothing else.
StoreRequests ==
    { Request(GetIndexPrefix, <<HostHeader>>, <<>>),
      RequestWithBody(PostCreateJobPrefix, CreateEnGo),
      RequestWithBody(PostCreateJobPrefix, CreatePercentNo),
      Request(DeleteLine(<<"1">>), <<>>, <<>>) }

\* serve with such clients and, run beside it at any time on the same database
\* file, the add command.
NextStore ==
    \/ \E text \in JobTexts, date \in DateArgs, now \in Today :
           CliAdd(text.title, text.description, date, now)
    \/ CliServe
    \/ Connect
    \/ \E request \in StoreRequests : Accept(request)
    \/ ReadLine
    \/ ReadBody
    \/ GetIndex
    \/ \E now \in Today : PostCreateJob(now)
    \/ PostDelete
    \/ Return

\* The database written from the command line and by the server.
SpecStore == Init /\ [][NextStore]_vars
(***************************************************************************)
(* Properties of the store (db.rs).                                        *)
(***************************************************************************)
\* The dates format_date hands to add_job in the model.
StoredDates == {Feb15, Mar1}

Range(seq) == {seq[i] : i \in 1..Len(seq)}

\* What add_job(title, description, date) must have done between two states.
AddPost(title, description, date) ==
    LET before == list_jobs(jobs)
        after == list_jobs(jobs')
    IN  /\ \E i \in 1..Len(after) :
            /\ after[i].title = title
            /\ after[i].description = description
            /\ after[i].date = date
            /\ \A j \in 1..Len(after) : j /= i => after[j].id /= after[i].id
            /\ \A k \in 1..Len(before) : before[k].id /= after[i].id
        /\ \A k \in 1..Len(before) : \E j \in 1..Len(after) : after[j] = before[k]

\* C1: after add(title, description, date), list contains a record with exactly
\* those three field values and an id that no other listed record has (and none
\* had before); every record listed before the add is still listed unchanged.
C1_AddThenList ==
    [][\A text \in JobTexts, date \in StoredDates :
          add_job(text.title, text.description, date)
              => AddPost(text.title, text.description, date)]_vars

\* An add has succeeded on a table that already held a record.
C1_Witness ==
    /\ out.cmd = "add"
    /\ ~out.panic
    /\ Cardinality(jobs) = 2

\* What remove_job(id) must have done between two states.
RemovePost(id) ==
    LET before == list_jobs(jobs)
        after == list_jobs(jobs')
    IN  /\ \A j \in 1..Len(after) : after[j].id /= id
        /\ \A k \in 1..Len(before) :
              before[k].id /= id => \E j \in 1..Len(after) : after[j] = before[k]
        /\ \A j \in 1..Len(after) : \E k \in 1..Len(before) : before[k] = after[j]
        /\ (\A k \in 1..Len(before) : before[k].id /= id) => jobs' = jobs

\* C2: after remove(id), list returns no record with that id and every record
\* with another id unchanged; when no record has the id, remove does not fail and
\* the store is exactly as before.
C2_RemoveThenList ==
    [][\A id \in RemoveIds :
          /\ remove_job(id) => RemovePost(id)
          /\ CliRemove(id) => ~out'.panic]_vars

\* A remove of an id that was once assigned and that no record has, on a table
\* that holds another record.
C2_Witness ==
    /\ out.cmd = "remove"
    /\ out.id \in assigned
    /\ out.id \notin Ids(jobs)
    /\ jobs /= {}

\* C3: with no clear in between, the id add assigns to a new record differs from
\* every id assigned earlier, the ids of records removed since included.
C3_IdNeverReused ==
    [][\A r \in jobs' \ jobs : r.id \notin assigned]_vars

\* C4: after clear, list returns the empty sequence whatever the store held; the
\* store accepts add again, and the first id assigned after the clear is the id a
\* freshly created store assigns to its first record.
C4_ClearThenList ==
    [][/\ CliClear => list_jobs(jobs') = <<>>
       /\ (out.cmd = "clear" /\ out'.cmd = "add" /\ ~out'.panic)
              => /\ Cardinality(jobs') = 1
                 /\ Ids(jobs') = {NewRowid({})}]_vars

\* The table has been cleared and exactly one add has succeeded since, as the
\* last command.
C4_Witness ==
    /\ recreated
    /\ out.cmd = "add"
    /\ ~out.panic
    /\ Cardinality(assigned) = 1
    /\ Cardinality(jobs) = 1

(***************************************************************************)
(* Properties of search (db.rs, seach_jobs).                               *)
(***************************************************************************)
\* A filter that is absent or the empty string.
NoFilter == {None, Some(<<>>)}

\* C5: with each of the three filters absent or the empty string, search returns
\* exactly the records list returns, in some order.
C5_EmptyFiltersListAll ==
    \A title \in NoFilter, description \in NoFilter, date \in NoFilter :
        \E found \in {seach_jobs(jobs, title, description, date)} :
            /\ ~found.panic
            /\ Range(found.jobs) = Range(list_jobs(jobs))
            /\ Len(found.jobs) = Len(list_jobs(jobs))

\* A search with three empty filters has returned two records, in another order
\* than list returns them.
C5_Witness ==
    /\ out.cmd = "search"
    /\ out.title = Some(<<>>) /\ out.description = Some(<<>>) /\ out.date = Some(<<>>)
    /\ Len(out.jobs) = 2
    /\ out.jobs /= list_jobs(jobs)

\* A text with its upper case ASCII letters made lower case.
Lowercase(s) == [i \in 1..Len(s) |-> to_ascii_lowercase(s[i])]

\* v occurs in s character for character, letter case aside (the case rule of
\* the LIKE operator).
ContainsLiterally(s, v) == contains(Lowercase(s), Lowercase(v))

\* A filter that is given and not empty.
Given(filter) == is_some(filter) /\ unwrap(filter) /= <<>>

\* C6: search with a non-empty title filter v and no other filter returns exactly
\* the records whose title contains v as a literal substring; a quote or a
\* pattern character in v is data like any other character.
C6_TitleFilterIsLiteral ==
    (/\ out.cmd = "search"
     /\ Given(out.title) /\ ~Given(out.description) /\ ~Given(out.date))
        => /\ ~out.panic
           /\ Range(out.jobs) = {r \in jobs : ContainsLiterally(r.title, unwrap(out.title))}

\* The date a date filter stands for, if it parses.
FilterDate(filter) == parse_from_str(unwrap(filter))

\* The records that satisfy every given filter: title and description by literal
\* substring, date by being the date given.
Matching(t, title, description, date) ==
    {r \in t :
        /\ Given(title) => ContainsLiterally(r.title, unwrap(title))
        /\ Given(description) => ContainsLiterally(r.description, unwrap(description))
        /\ Given(date) => parse_from_str(r.date) = FilterDate(date)}

\* C7: search returns exactly the records that satisfy all given filters at once,
\* the date filter (a valid date) matching only the records of exactly that date.
C7_FiltersCombineWithAnd ==
    (/\ out.cmd = "search"
     /\ Given(out.date) => FilterDate(out.date).ok)
        => /\ ~out.panic
           /\ Range(out.jobs) = Matching(jobs, out.title, out.description, out.date)

\* The calendar date a is before the calendar date b.
CalendarBefore(a, b) ==
    \/ a.year < b.year
    \/ a.year = b.year /\ a.month < b.month
    \/ a.year = b.year /\ a.month = b.month /\ a.day < b.day

\* C8: the sequence search returns is in ascending calendar-date order.
C8_CalendarOrder ==
    (out.cmd = "search" /\ ~out.panic)
        => \A i \in 1..Len(out.jobs), j \in 1..Len(out.jobs) :
              CalendarBefore(parse_from_str(out.jobs[i].date).date,
                             parse_from_str(out.jobs[j].date).date) => i < j

MalformedDates == {date \in DateArgs : is_some(date) /\ ~FilterDate(date).ok}

\* C17: add with a date that is no day-month-year date fails fatally and leaves
\* the store exactly as it was; search with the same date as its only filter does
\* not fail and returns what search without a filter returns.
C17_BadDateFatalForAdd ==
    /\ [][\A text \in JobTexts, date \in MalformedDates, now \in Today :
             CliAdd(text.title, text.description, date, now)
                 => /\ out'.panic
                    /\ UNCHANGED <<jobs, assigned, recreated>>]_vars
    /\ [](\A date \in MalformedDates :
             (/\ out.cmd = "search"
              /\ out.date = date
              /\ ~Given(out.title) /\ ~Given(out.description))
                 => /\ ~out.panic
                    /\ out.jobs = seach_jobs(jobs, None, None, None).jobs)

\* add has failed on a store that holds a record.
C17_AddFailed ==
    /\ out.cmd = "add"
    /\ out.panic
    /\ jobs /= {}

(***************************************************************************)
(* Properties of the HTTP handler (main.rs, handle_request).               *)
(***************************************************************************)
\* The client has sent the whole header block, the empty line that ends it
\* included: the handler can read it.
HeaderBlockSent == \E i \in 1..Len(stream.sent) : stream.sent[i] = <<>>

\* C10: once a connection whose header block can be read is closed, exactly one
\* response has been written on it; when the handler has failed on the request
\* (a body that is not JSON, a missing field, a Content-Length or an id that is no
\* number), that one response carries an error status.
C10_ExactlyOneResponse ==
    (stream.state = "closed" /\ HeaderBlockSent)
        => /\ Len(stream.written) = 1
           /\ pc = "panicked" => stream.written[1].status >= 400

\* C11: the server keeps running, also after a request that fails: every
\* connection that waits is in time taken, and the connection taken is handled to
\* its end, after which serve_jobs is in accept again for the next one.
C11_KeepsServing ==
    /\ (pending > 0) ~> (pending = 0)
    /\ (stream.state = "open") ~> (stream.state = "closed" /\ pc = "accept")

\* The response has a header of this name.
HasHeader(response, name) ==
    \E i \in 1..Len(response.headers) : response.headers[i].name = name

\* C12: every response written has a Content-Type header and a Content-Length
\* header whose value is the number of bytes of its body.
C12_ContentHeaders ==
    \A k \in 1..Len(stream.written) :
        /\ HasHeader(stream.written[k], "Content-Type")
        /\ \E i \in 1..Len(stream.written[k].headers) :
              /\ stream.written[k].headers[i].name = "Content-Length"
              /\ stream.written[k].headers[i].value = Len(stream.written[k].body)

\* The method and the path of a request line: what stands before its first space,
\* and between that and the next.
Method(line) == split_next(line, <<" ">>)

Path(line) == split_next(SubSeq(line, Len(Method(line)) + 2, Len(line)), <<" ">>)

\* The request line is for one of the six routes: the method and the path of one
\* of the five fixed ones, or POST and a path under /delete/.
MatchesRoute(line) ==
    \/ \E route \in {GetIndexPrefix, GetStylesPrefix, GetCreatePrefix,
                     PostCreateJobPrefix, PostExportPrefix} :
          Method(line) = Method(route) /\ Path(line) = Path(route)
    \/ /\ Method(line) = Method(PostDeletePrefix)
       /\ starts_with(Path(line), Path(PostDeletePrefix))

RendersRow(page, id) == contains(page, delete_button(id))

\* C14: POST /delete/<id> for the id of a stored record writes one response, a 303
\* with Location "/", and removes that record and no other; and the page GET /
\* writes has a row for an id ever given exactly when a record with the id is
\* stored, so after the delete it has none for that id and one for every other
\* record.
C14_DeleteThenIndex ==
    [][/\ (/\ pc = "dispatch" /\ pc' /= "dispatch"
           /\ starts_with(stream.sent[1], PostDeletePrefix)
           /\ DeleteId(stream.sent[1]).ok
           /\ DeleteId(stream.sent[1]).value \in Ids(jobs))
          => /\ jobs' = {r \in jobs : r.id /= DeleteId(stream.sent[1]).value}
             /\ Len(stream'.written) = 1
             /\ stream'.written[1].status = 303
             /\ \E i \in 1..Len(stream'.written[1].headers) :
                   stream'.written[1].headers[i] = [name |-> "Location", value |-> "/"]
       /\ (/\ pc = "dispatch" /\ pc' /= "dispatch"
           /\ starts_with(stream.sent[1], GetIndexPrefix))
          => /\ UNCHANGED jobs
             /\ Len(stream'.written) = 1
             /\ stream'.written[1].status = 200
             /\ \A id \in assigned :
                   RendersRow(stream'.written[1].body, id) <=> id \in Ids(jobs)]_vars

\* GET / has been answered with a page for a store from which a record has been
\* deleted and in which another is left.
C14_Witness ==
    /\ pc = "return"
    /\ starts_with(stream.sent[1], GetIndexPrefix)
    /\ Len(stream.written) = 1
    /\ jobs /= {}
    /\ \E id \in assigned : id \notin Ids(jobs) /\ ~RendersRow(stream.written[1].body, id)
    /\ \E id \in Ids(jobs) : RendersRow(stream.written[1].body, id)

\* The format the payload of the connection gives, if the payload is a JSON object
\* of strings that has one.
GivenFormat ==
    Let(from_str(stream.payload), LAMBDA b :
        IF b.ok THEN get(b.map, format_key) ELSE None)

\* C15: the step that dispatches a POST /export whose body gives a format that is
\* neither json nor csv as written writes one response, of a status from 400 to
\* 499 and with a body that is no export of the jobs, and leaves the store as it is.
C15_InvalidFormat ==
    [][(/\ pc = "dispatch" /\ pc' /= "dispatch"
        /\ starts_with(stream.sent[1], PostExportPrefix)
        /\ is_some(GivenFormat)
        /\ unwrap(GivenFormat) \notin {json_text, csv_text})
          => /\ UNCHANGED <<jobs, assigned, recreated>>
             /\ Len(stream'.written) = 1
             /\ stream'.written[1].status \in 400..499
             /\ \A fmt \in {"Json", "Csv"} :
                   stream'.written[1].body /= export_jobs_to_bytes(list_jobs(jobs), fmt)]_vars

\* POST /export with the format JSON in capitals has been answered 400 while two
\* jobs are stored.
C15_Witness ==
    /\ pc = "return"
    /\ stream.payload = ExportUpper
    /\ Len(stream.written) = 1
    /\ stream.written[1].status = 400
    /\ Cardinality(jobs) = 2

\* C16: every stored record has its four fields populated: an id from 1 on, a
\* title and a description that are not empty, and a date.
C16_FieldsPopulated ==
    \A r \in jobs :
        /\ r.id >= 1
        /\ r.title /= <<>>
        /\ r.description /= <<>>
        /\ r.date /= <<>>

\* The payload of the connection as a JSON object of strings, if it is one.
GivenBody == from_str(stream.payload)

\* The request has the Content-Length header that counts its payload.
LengthGiven ==
    \E i \in 1..Len(stream.sent) :
        stream.sent[i] = ContentLengthPrefix \o to_string(Len(stream.payload))

\* C18: the step that dispatches a POST /create_job whose body, sent with its
\* length, is a JSON object with a title and a description adds one record, under an id no record has, with
\* that title, that description and the date of today, leaves every other record
\* as it is, and writes one response: 200, text/plain, "Job created successfully".
C18_CreateJob ==
    [][(/\ pc = "dispatch" /\ pc' /= "dispatch"
        /\ starts_with(stream.sent[1], PostCreateJobPrefix)
        /\ LengthGiven
        /\ GivenBody.ok
        /\ is_some(get(GivenBody.map, title_key))
        /\ is_some(get(GivenBody.map, description_key)))
          => /\ \E r \in jobs' :
                   /\ r.id \notin Ids(jobs)
                   /\ jobs' = jobs \cup {r}
                   /\ r.title = unwrap(get(GivenBody.map, title_key))
                   /\ r.description = unwrap(get(GivenBody.map, description_key))
                   /\ r.date \in StoredDates
                   /\ \E now \in Today : parse_from_str(r.date).date = now
             /\ Len(stream'.written) = 1
             /\ stream'.written[1].status = 200
             /\ \E i \in 1..Len(stream'.written[1].headers) :
                   stream'.written[1].headers[i]
                       = [name |-> "Content-Type", value |-> "text/plain"]
             /\ stream'.written[1].body = JobCreatedText]_vars

\* POST /create_job has been answered 200 and the store holds two records whose
\* titles differ from their descriptions.
C18_Witness ==
    /\ pc = "return"
    /\ starts_with(stream.sent[1], PostCreateJobPrefix)
    /\ Len(stream.written) = 1
    /\ stream.written[1].status = 200
    /\ Cardinality(jobs) = 2
    /\ \A r \in jobs : r.title /= r.description

\* The place of a step of handle_request in the order of the steps.
Stage(p) ==
    CASE p = "headers" -> 1
      [] p = "body" -> 2
      [] p = "dispatch" -> 3
      [] p = "return" -> 4
      [] OTHER -> 0

TakesConnection ==
    /\ stream'.state = "open"
    /\ stream'.next = 1
    /\ stream'.written = <<>>
    /\ pc' = "headers"
    /\ pending' = pending - 1

\* C20: a connection is taken only when no other is open, the others waiting; the
\* store changes only in the dispatch of the one connection that is open; and the
\* page written for GET / has a row for every record stored, those the requests
\* before it have added included.
C20_OneAtATime ==
    /\ [][/\ TakesConnection => (stream.state /= "open" /\ pc = "accept")
          /\ jobs' /= jobs => (stream.state = "open" /\ pc = "dispatch")]_vars
    /\ [](stream.state = "open" <=> pc \in {"headers", "body", "dispatch", "return"})
    /\ []((pc = "return" /\ starts_with(stream.sent[1], GetIndexPrefix))
            => \A r \in jobs : RendersRow(stream.written[1].body, r.id))

\* A connection waits while the request of another, on a store that holds a
\* record, is at its dispatch.
C20_Witness ==
    /\ pending > 0
    /\ stream.state = "open"
    /\ pc = "dispatch"
    /\ jobs /= {}

\* The text is a date in day-month-year form: it parses as one, and is what that
\* date is formatted to.
IsDayMonthYear(text) ==
    Let(parse_from_str(text), LAMBDA parsed :
        parsed.ok /\ format(parsed.date) = text)

\* C21: the date of every stored record is a valid date in day-month-year form,
\* whether add or POST /create_job has stored it, and the step that dispatches
\* GET / does not fail: it writes the page.
C21_StoredDatesValid ==
    /\ [](\A r \in jobs : IsDayMonthYear(r.date))
    /\ [][(/\ pc = "dispatch" /\ pc' /= "dispatch"
           /\ starts_with(stream.sent[1], GetIndexPrefix))
             => /\ pc' = "return"
                /\ Len(stream'.written) = 1
                /\ stream'.written[1].status = 200]_vars

\* GET / has been answered with the page for two records of different dates, the
\* last command run having been an add that succeeded.
C21_Witness ==
    /\ pc = "return"
    /\ starts_with(stream.sent[1], GetIndexPrefix)
    /\ Len(stream.written) = 1
    /\ out.cmd = "add" /\ ~out.panic
    /\ \E r, q \in jobs : r.date /= q.date

====
